---- MODULE Spec2Model ----
(***************************************************************************)
(* Conjunction screening of src/processors/conjunction_detector.py and the *)
(* position lookup of src/processors/orbit_propagator.py.                  *)
(*                                                                         *)
(* Lengths (positions, distances, altitudes, thresholds) are fixed-point   *)
(* integers in thousandths of a kilometre: 5000 is 5 km, 10 is 0.01 km.    *)
(* Times are minutes.  Names are the ranks of the name strings in lexical  *)
(* order (name 1 sorts before name 2).                                     *)
(***************************************************************************)
EXTENDS Integers, Sequences, FiniteSets

(* ------------------------------ bounds -------------------------------- *)
MaxSats == 3
MaxRuns == 2
MaxNow == 10

(* --------------------------- program constants ------------------------ *)
EARTH_RADIUS_KM == 6371000

VARIABLES satellites, threshold_km, duration_hours, step_minutes,
          runs, now, pc, start_time, steps, step, conjunctions, returned,
          distance_km, assessment,
          calls,
          tle_record, sample_step, trajectory,
          catalogs, limit_per_catalog, fetched, using_fallback, last_error,
          data_source, all_satellites, report

(* the state of propagate_satellite and of the TLE fetcher *)
samplerVars == <<tle_record, sample_step, trajectory>>
fetchVars == <<catalogs, limit_per_catalog, fetched, using_fallback,
               last_error, data_source, all_satellites, report>>

vars == <<satellites, threshold_km, duration_hours, step_minutes,
          runs, now, pc, start_time, steps, step, conjunctions, returned,
          distance_km, assessment, calls, samplerVars, fetchVars>>

(* ------------- arithmetic on squares wider than 32 bits --------------- *)
(* A square of a length does not fit a 32-bit integer, so sums of         *)
(* squares are kept as two limbs, value = hi * 10^6 + lo, 0 <= lo < 10^6.  *)
Abs(x) == IF x < 0 THEN -x ELSE x

Norm2(hi, lo) == [hi |-> hi + (lo \div 1000000), lo |-> lo % 1000000]

Square(x) ==
    LET a == Abs(x) \div 1000
        b == Abs(x) % 1000
        c == 2 * a * b
    IN  Norm2(a * a + (c \div 1000), (c % 1000) * 1000 + b * b)

Plus(p, q) == Norm2(p.hi + q.hi, p.lo + q.lo)

Leq(p, q) == p.hi < q.hi \/ (p.hi = q.hi /\ p.lo <= q.lo)

SumSquares(v) == Plus(Plus(Square(v[1]), Square(v[2])), Square(v[3]))

RECURSIVE SqrtSearch(_, _, _)
SqrtSearch(s, lo, hi) ==
    IF hi - lo <= 1 THEN lo
    ELSE LET mid == (lo + hi) \div 2
         IN  IF Leq(Square(mid), s) THEN SqrtSearch(s, mid, hi)
                                    ELSE SqrtSearch(s, lo, mid)

(* np.sqrt of a sum of squares: the integer part (in thousandths of a km)  *)
(* and whether the root is exactly that integer.                           *)
Sqrt(s) ==
    LET r == SqrtSearch(s, 0, 33554432)
    IN  [floor |-> r, exact |-> Square(r) = s]

(* Python round(x, ndigits) of x = v.floor + fraction, to a multiple of    *)
(* unit: nearest multiple, an exact half going to the even multiple.       *)
Round(v, unit) ==
    LET q == v.floor \div unit
        r == v.floor % unit
        half == unit \div 2
    IN  IF r < half THEN q * unit
        ELSE IF r > half \/ ~v.exact THEN (q + 1) * unit
        ELSE IF q % 2 = 0 THEN q * unit ELSE (q + 1) * unit

Minus(v, k) == [floor |-> v.floor - k, exact |-> v.exact]

(* ------------------------- the SGP4 library --------------------------- *)
(* Satrec.twoline2rv and Satrec.sgp4 are a pure function of the element    *)
(* set and the time.  Element set 0 is malformed (twoline2rv raises);      *)
(* element sets 1 and 2 follow each other on one orbit, set 2 one slot     *)
(* ahead of set 1, and set 2 has decayed (sgp4 error 6) from minute 50 on; *)
(* element set 3 flies 3 km above set 1; element set 4 is set 1 with a     *)
(* state the library rejects (sgp4 error 1) from minute 20 to minute 29.   *)
Elements == 0..2

Ring == << <<6771000, 0, 0>>, <<6771000, 6, 0>>,
           <<6771000, 3000, 4000>>, <<-7171000, 0, 0>> >>

(* element set 3 keeps the slot of set 1 on a shell 3 km higher *)
HighRing == << <<6774000, 0, 0>>, <<6774000, 6, 0>>,
               <<6774000, 3000, 4000>>, <<-7174000, 0, 0>> >>

(* the position vectors the library returns *)
Samples == {Ring[i] : i \in 1..Len(Ring)} \cup {HighRing[i] : i \in 1..Len(HighRing)}

(* np.sqrt(sum((a - b) ** 2 ...)) and np.sqrt(sum(p ** 2 ...)), tabulated  *)
(* once over the position vectors                                          *)
Separation ==
    [pos1 \in Samples, pos2 \in Samples |->
        Sqrt(SumSquares(<<pos1[1] - pos2[1], pos1[2] - pos2[2],
                          pos1[3] - pos2[3]>>))]

Magnitude == [position \in Samples |-> Sqrt(SumSquares(position))]

(* calculate_distance over the last two components only *)
calculate_distance_yz(pos1, pos2) ==
    Sqrt(SumSquares(<<0, pos1[2] - pos2[2], pos1[3] - pos2[3]>>))

(* conjunction_detector.calculate_distance *)
calculate_distance(pos1, pos2) == Separation[pos1, pos2]

twoline2rv(elements) == [raised |-> elements = 0, satrec |-> elements]

sgp4(satrec, t) ==
    IF satrec = 2 /\ t >= 50
    THEN [error |-> 6, position |-> <<0, 0, 0>>]
    ELSE IF satrec = 4 /\ t \div 10 = 2
    THEN [error |-> 1, position |-> <<0, 0, 0>>]
    ELSE IF satrec = 3
    THEN [error |-> 0, position |-> HighRing[((t \div 10) % Len(HighRing)) + 1]]
    ELSE [error |-> 0,
          position |-> Ring[(((t \div 10) + (IF satrec = 4 THEN 1 ELSE satrec) - 1)
                             % Len(Ring)) + 1]]

(* orbit_propagator.get_current_position: kind "ok" with the sample,       *)
(* "none" for the None return, "raise" for an exception.                   *)
get_current_position(tle_data, at_time) ==
    LET satellite == twoline2rv(tle_data.elements)
        out == sgp4(satellite.satrec, at_time)
    IN  IF satellite.raised
        THEN [kind |-> "raise", position |-> <<0, 0, 0>>,
              altitude_km |-> [floor |-> 0, exact |-> TRUE]]
        ELSE IF out.error = 0
        THEN [kind |-> "ok", position |-> out.position,
              altitude_km |-> Minus(Magnitude[out.position], EARTH_RADIUS_KM)]
        ELSE [kind |-> "none", position |-> <<0, 0, 0>>,
              altitude_km |-> [floor |-> 0, exact |-> TRUE]]

(* ------------------------- find_conjunctions -------------------------- *)
(* Steps with the end of the window as one more grid point *)
StepsThrough(hours, minutes) ==
    LET quotient == Abs(hours * 60) \div Abs(minutes)
    IN  IF (hours < 0) = (minutes < 0) THEN quotient + 1 ELSE -quotient

(* int((duration_hours * 60) / step_minutes): the quotient truncated       *)
(* towards zero; the division by zero is the caller's ZeroDivisionError    *)
Steps(hours, minutes) ==
    LET quotient == Abs(hours * 60) \div Abs(minutes)
    IN  IF (hours < 0) = (minutes < 0) THEN quotient ELSE -quotient

(* Positions with "except: break" in place of "except: continue" *)
RECURSIVE PositionsBreak(_, _)
PositionsBreak(sats, current_time) ==
    IF sats = <<>> THEN <<>>
    ELSE LET sat == Head(sats)
             pos_data == get_current_position(sat, current_time)
             rest == PositionsBreak(Tail(sats), current_time)
         IN  IF pos_data.kind = "ok"
             THEN <<[name |-> sat.name,
                     position |-> pos_data.position,
                     altitude_km |-> pos_data.altitude_km,
                     time |-> current_time]>> \o rest
             ELSE IF pos_data.kind = "raise" THEN <<>>
             ELSE rest

(* Positions leaving the loop at the first lookup that returns None *)
RECURSIVE PositionsStopOnNone(_, _)
PositionsStopOnNone(sats, current_time) ==
    IF sats = <<>> THEN <<>>
    ELSE LET sat == Head(sats)
             pos_data == get_current_position(sat, current_time)
             rest == PositionsStopOnNone(Tail(sats), current_time)
         IN  IF pos_data.kind = "ok"
             THEN <<[name |-> sat.name,
                     position |-> pos_data.position,
                     altitude_km |-> pos_data.altitude_km,
                     time |-> current_time]>> \o rest
             ELSE IF pos_data.kind = "none" THEN <<>>
             ELSE rest

(* lines 22-35: the samples of one grid time, in input order; an object    *)
(* whose lookup raises or returns None contributes nothing.                *)
RECURSIVE Positions(_, _)
Positions(sats, current_time) ==
    IF sats = <<>> THEN <<>>
    ELSE LET sat == Head(sats)
             pos_data == get_current_position(sat, current_time)
             rest == Positions(Tail(sats), current_time)
         IN  IF pos_data.kind = "ok"
             THEN <<[name |-> sat.name,
                     position |-> pos_data.position,
                     altitude_km |-> pos_data.altitude_km,
                     time |-> current_time]>> \o rest
             ELSE rest

(* Pair with "dist <= threshold_km" *)
PairInclusive(pi, pj, thr, current_time, start) ==
    LET dist == calculate_distance(pi.position, pj.position)
    IN  IF dist.floor < thr \/ (dist.floor = thr /\ dist.exact)
        THEN <<[object1 |-> pi.name,
                object2 |-> pj.name,
                distance_km |-> Round(dist, 10),
                time |-> current_time,
                time_from_now |-> current_time - start,
                altitude1_km |-> Round(pi.altitude_km, 100),
                altitude2_km |-> Round(pj.altitude_km, 100)]>>
        ELSE <<>>

(* Pair with the two altitudes exchanged *)
PairSwapped(pi, pj, thr, current_time, start) ==
    LET dist == calculate_distance(pi.position, pj.position)
    IN  IF dist.floor < thr
        THEN <<[object1 |-> pi.name,
                object2 |-> pj.name,
                distance_km |-> Round(dist, 10),
                time |-> current_time,
                time_from_now |-> current_time - start,
                altitude1_km |-> Round(pj.altitude_km, 100),
                altitude2_km |-> Round(pi.altitude_km, 100)]>>
        ELSE <<>>

(* lines 39-53: one pair of samples *)
Pair(pi, pj, thr, current_time, start) ==
    LET dist == calculate_distance(pi.position, pj.position)
    IN  IF dist.floor < thr
        THEN <<[object1 |-> pi.name,
                object2 |-> pj.name,
                distance_km |-> Round(dist, 10),
                time |-> current_time,
                time_from_now |-> current_time - start,
                altitude1_km |-> Round(pi.altitude_km, 100),
                altitude2_km |-> Round(pj.altitude_km, 100)]>>
        ELSE <<>>

(* line 38: for j in range(i + 1, len(positions)) *)
RECURSIVE InnerLoop(_, _, _, _, _, _)
InnerLoop(positions, i, j, thr, current_time, start) ==
    IF j > Len(positions) THEN <<>>
    ELSE Pair(positions[i], positions[j], thr, current_time, start)
         \o InnerLoop(positions, i, j + 1, thr, current_time, start)

(* OuterLoop with the inner loop over every j other than i *)
RECURSIVE InnerLoopOthers(_, _, _, _, _, _)
InnerLoopOthers(positions, i, j, thr, current_time, start) ==
    IF j > Len(positions) THEN <<>>
    ELSE (IF j = i THEN <<>>
          ELSE Pair(positions[i], positions[j], thr, current_time, start))
         \o InnerLoopOthers(positions, i, j + 1, thr, current_time, start)

RECURSIVE OuterLoopOthers(_, _, _, _, _)
OuterLoopOthers(positions, i, thr, current_time, start) ==
    IF i > Len(positions) THEN <<>>
    ELSE InnerLoopOthers(positions, i, 1, thr, current_time, start)
         \o OuterLoopOthers(positions, i + 1, thr, current_time, start)

(* line 37: for i in range(len(positions)) *)
RECURSIVE OuterLoop(_, _, _, _, _)
OuterLoop(positions, i, thr, current_time, start) ==
    IF i > Len(positions) THEN <<>>
    ELSE InnerLoop(positions, i, i + 1, thr, current_time, start)
         \o OuterLoop(positions, i + 1, thr, current_time, start)

(* lines 20-53: the body of one iteration of the grid loop *)
StepEvents(sats, thr, start, minutes, k) ==
    LET current_time == start + k * minutes
    IN  OuterLoop(Positions(sats, current_time), 1, thr, current_time, start)

(* Insert that puts an event before the events of equal distance *)
RECURSIVE InsertBefore(_, _)
InsertBefore(sorted, e) ==
    IF sorted = <<>> THEN <<e>>
    ELSE IF Head(sorted).distance_km < e.distance_km
         THEN <<Head(sorted)>> \o InsertBefore(Tail(sorted), e)
         ELSE <<e>> \o sorted

(* list.sort(key=distance_km): ascending and stable *)
RECURSIVE Insert(_, _)
Insert(sorted, e) ==
    IF sorted = <<>> THEN <<e>>
    ELSE IF Head(sorted).distance_km <= e.distance_km
         THEN <<Head(sorted)>> \o Insert(Tail(sorted), e)
         ELSE <<e>> \o sorted

(* Sort left out: the events stay in scan order *)
SortSkipped(events) == events

RECURSIVE Sort(_)
Sort(events) ==
    IF events = <<>> THEN <<>>
    ELSE Insert(Sort(SubSeq(events, 1, Len(events) - 1)), events[Len(events)])

(* the whole of find_conjunctions as a function of its inputs and the clock *)
RECURSIVE Scan(_, _, _, _, _, _)
Scan(sats, thr, start, minutes, k, n) ==
    IF k >= n THEN <<>>
    ELSE StepEvents(sats, thr, start, minutes, k)
         \o Scan(sats, thr, start, minutes, k + 1, n)

find_conjunctions(sats, thr, hours, minutes, start) ==
    Sort(Scan(sats, thr, start, minutes, 0, Steps(hours, minutes)))

(* assess_collision_risk with upper-inclusive breakpoints *)
assess_collision_risk_inclusive(d) ==
    IF d <= 1000 THEN <<"CRITICAL", 95, "Immediate collision risk">>
    ELSE IF d <= 5000 THEN <<"HIGH", 80, "Very close approach - high risk">>
    ELSE IF d <= 10000 THEN <<"ELEVATED", 60, "Close approach - monitor closely">>
    ELSE IF d <= 25000 THEN <<"MODERATE", 40, "Notable approach">>
    ELSE IF d <= 50000 THEN <<"LOW", 20, "Distant approach">>
    ELSE <<"MINIMAL", 5, "Safe distance">>

(* conjunction_detector.assess_collision_risk *)
assess_collision_risk(d) ==
    IF d < 1000 THEN <<"CRITICAL", 95, "Immediate collision risk">>
    ELSE IF d < 5000 THEN <<"HIGH", 80, "Very close approach - high risk">>
    ELSE IF d < 10000 THEN <<"ELEVATED", 60, "Close approach - monitor closely">>
    ELSE IF d < 25000 THEN <<"MODERATE", 40, "Notable approach">>
    ELSE IF d < 50000 THEN <<"LOW", 20, "Distant approach">>
    ELSE <<"MINIMAL", 5, "Safe distance">>

(* ------------------------------ inputs -------------------------------- *)
Names == {1, 2, 3}
Records == [name : Names, elements : Elements]
RECURSIVE Lists(_)
Lists(n) ==
    IF n = 0 THEN {<<>>}
    ELSE LET shorter == Lists(n - 1)
         IN  shorter \cup {Append(l, r) : l \in {s \in shorter : Len(s) = n - 1},
                                          r \in Records}
Thresholds == {0, 8, 5000}
DurationHours == {1}
StepMinutes == {20, 30, 45}
Distances == {250 * k : k \in 0..240} \cup {-1000, -1}
             \cup {b + d : b \in {1000, 5000, 10000, 25000, 50000}, d \in {-1, 1}}

NoAssessment == <<"", 0, "">>

NoTrajectory == [positions |-> <<>>, times |-> <<>>]

SamplerIdle ==
    /\ tle_record = [name |-> 1, elements |-> 1]
    /\ sample_step = 0
    /\ trajectory = NoTrajectory

(* tle_fetcher.py lines 134-136: the module globals *)
FetcherIdle ==
    /\ catalogs = <<>>
    /\ limit_per_catalog = 0
    /\ fetched = 0
    /\ using_fallback = FALSE
    /\ last_error = "None"
    /\ data_source = "None"
    /\ all_satellites = <<>>
    /\ report = "none"

Init ==
    /\ satellites \in Lists(MaxSats)
    /\ threshold_km \in Thresholds
    /\ duration_hours \in DurationHours
    /\ step_minutes \in StepMinutes
    /\ runs = 1
    /\ now = 0
    /\ pc = "idle"
    /\ start_time = 0
    /\ steps = 0
    /\ step = 0
    /\ conjunctions = <<>>
    /\ returned = <<>>
    /\ distance_km = 0
    /\ assessment = NoAssessment
    /\ calls = <<>>
    /\ SamplerIdle
    /\ FetcherIdle

(* the wall clock moves on before a call *)
Tick ==
    /\ pc \in {"idle", "done"}
    /\ Len(returned) < runs
    /\ now + 10 <= MaxNow
    /\ now' = now + 10
    /\ UNCHANGED <<satellites, threshold_km, duration_hours, step_minutes, runs,
                   pc, start_time, steps, step, conjunctions, returned,
                   distance_km, assessment, calls, samplerVars, fetchVars>>

(* lines 14-17: start_time = datetime.utcnow(), steps, conjunctions = [] *)
Call ==
    /\ pc \in {"idle", "done"}
    /\ Len(returned) < runs
    /\ start_time' = now
    /\ steps' = IF step_minutes = 0 THEN 0
                ELSE Steps(duration_hours, step_minutes)
    /\ step' = 0
    /\ conjunctions' = <<>>
    /\ calls' = <<>>
    /\ pc' = IF step_minutes = 0 THEN "raised" ELSE "loop"
    /\ UNCHANGED <<satellites, threshold_km, duration_hours, step_minutes, runs,
                   now, returned, distance_km, assessment,
                   samplerVars, fetchVars>>

(* line 25: the get_current_position calls of one grid time, as pairs of  *)
(* the object's place in the input and the time asked for                  *)
Lookups(sats, current_time) == [n \in 1..Len(sats) |-> <<n, current_time>>]

(* lines 19-53: one grid time *)
ScanStep ==
    /\ pc = "loop"
    /\ step < steps
    /\ conjunctions' = conjunctions \o
           StepEvents(satellites, threshold_km, start_time, step_minutes, step)
    /\ calls' = calls \o Lookups(satellites, start_time + step * step_minutes)
    /\ step' = step + 1
    /\ UNCHANGED <<satellites, threshold_km, duration_hours, step_minutes, runs,
                   now, pc, start_time, steps, returned, distance_km, assessment,
                   samplerVars, fetchVars>>

(* lines 55-57: sort and return *)
Return ==
    /\ pc = "loop"
    /\ step >= steps
    /\ conjunctions' = Sort(conjunctions)
    /\ returned' = Append(returned, conjunctions')
    /\ pc' = "done"
    /\ UNCHANGED <<satellites, threshold_km, duration_hours, step_minutes, runs,
                   now, start_time, steps, step, distance_km, assessment,
                   calls, samplerVars, fetchVars>>

Next == Tick \/ Call \/ ScanStep \/ Return

Spec == Init /\ [][Next]_vars

(* ---------------- the classifier on its own (pure function) ----------- *)
InitRisk ==
    /\ satellites = <<>>
    /\ threshold_km = 0
    /\ duration_hours = 1
    /\ step_minutes = 20
    /\ runs = 0
    /\ now = 0
    /\ pc = "idle"
    /\ start_time = 0
    /\ steps = 0
    /\ step = 0
    /\ conjunctions = <<>>
    /\ returned = <<>>
    /\ distance_km \in Distances
    /\ assessment = NoAssessment
    /\ calls = <<>>
    /\ SamplerIdle
    /\ FetcherIdle

Assess ==
    /\ assessment = NoAssessment
    /\ assessment' = assess_collision_risk(distance_km)
    /\ UNCHANGED <<satellites, threshold_km, duration_hours, step_minutes, runs,
                   now, pc, start_time, steps, step, conjunctions, returned,
                   distance_km, calls, samplerVars, fetchVars>>

NextRisk == Assess

SpecRisk == InitRisk /\ [][NextRisk]_vars

(* ------------- the caller screens the same inputs again --------------- *)
InitRerun ==
    /\ satellites \in Lists(MaxSats)
    /\ threshold_km \in Thresholds
    /\ duration_hours \in DurationHours
    /\ step_minutes \in StepMinutes
    /\ runs = MaxRuns
    /\ now = 0
    /\ pc = "idle"
    /\ start_time = 0
    /\ steps = 0
    /\ step = 0
    /\ conjunctions = <<>>
    /\ returned = <<>>
    /\ distance_km = 0
    /\ assessment = NoAssessment
    /\ calls = <<>>
    /\ SamplerIdle
    /\ FetcherIdle

SpecRerun == InitRerun /\ [][Next]_vars

(* ----------------- orbit_propagator.propagate_satellite --------------- *)
SampleRecords == [name : {1}, elements : 0..4]
SampleHours == {-1, 0, 1}
SampleMinutes == {-30, 0, 20, 30, 45}

InitSampler ==
    /\ satellites = <<>>
    /\ threshold_km = 0
    /\ duration_hours \in SampleHours
    /\ step_minutes \in SampleMinutes
    /\ runs = 1
    /\ now = 0
    /\ pc = "idle"
    /\ start_time = 0
    /\ steps = 0
    /\ step = 0
    /\ conjunctions = <<>>
    /\ returned = <<>>
    /\ distance_km = 0
    /\ assessment = NoAssessment
    /\ calls = <<>>
    /\ tle_record \in SampleRecords
    /\ sample_step = 0
    /\ trajectory = NoTrajectory
    /\ FetcherIdle

(* lines 12-20: twoline2rv, start_time, the empty lists, steps; either     *)
(* of twoline2rv and the division can raise                                *)
PropagateCall ==
    /\ pc = "idle"
    /\ LET raises == twoline2rv(tle_record.elements).raised \/ step_minutes = 0
       IN  /\ pc' = IF raises THEN "raised" ELSE "sampling"
           /\ steps' = IF raises THEN 0 ELSE Steps(duration_hours, step_minutes)
    /\ start_time' = now
    /\ sample_step' = 0
    /\ trajectory' = NoTrajectory
    /\ UNCHANGED <<satellites, threshold_km, duration_hours, step_minutes, runs,
                   now, step, conjunctions, returned, distance_km, assessment,
                   calls, tle_record, fetchVars>>

(* lines 23-33: one sample of propagate_satellite *)
Sample(record, traj, current_time) ==
    LET out == sgp4(twoline2rv(record.elements).satrec, current_time)
    IN  IF out.error = 0
        THEN [positions |-> Append(traj.positions, out.position),
              times |-> Append(traj.times, current_time)]
        ELSE traj

(* lines 22-33: one iteration of the loop *)
PropagateStep ==
    /\ pc = "sampling"
    /\ sample_step < steps
    /\ trajectory' = Sample(tle_record, trajectory,
                            start_time + sample_step * step_minutes)
    /\ sample_step' = sample_step + 1
    /\ UNCHANGED <<satellites, threshold_km, duration_hours, step_minutes, runs,
                   now, pc, start_time, steps, step, conjunctions, returned,
                   distance_km, assessment, calls, tle_record, fetchVars>>

(* lines 35-40: the return *)
PropagateReturn ==
    /\ pc = "sampling"
    /\ sample_step >= steps
    /\ pc' = "sampled"
    /\ UNCHANGED <<satellites, threshold_km, duration_hours, step_minutes, runs,
                   now, start_time, steps, step, conjunctions, returned,
                   distance_km, assessment, calls, samplerVars, fetchVars>>

NextSampler == Tick \/ PropagateCall \/ PropagateStep \/ PropagateReturn

SpecSampler == InitSampler /\ [][NextSampler]_vars

(* --------- screening objects on two shells 3 km apart in altitude ----- *)
LayeredRecords ==
    [name : {1}, elements : {1, 2}] \cup [name : {2}, elements : {3, 4}]
RECURSIVE ListsOf(_, _)
ListsOf(records, n) ==
    IF n = 0 THEN {<<>>}
    ELSE LET shorter == ListsOf(records, n - 1)
         IN  shorter \cup {Append(l, r) : l \in {q \in shorter : Len(q) = n - 1},
                                          r \in records}

InitLayered ==
    /\ satellites \in ListsOf(LayeredRecords, MaxSats)
    /\ threshold_km \in Thresholds
    /\ duration_hours \in DurationHours
    /\ step_minutes \in StepMinutes
    /\ runs = 1
    /\ now = 0
    /\ pc = "idle"
    /\ start_time = 0
    /\ steps = 0
    /\ step = 0
    /\ conjunctions = <<>>
    /\ returned = <<>>
    /\ distance_km = 0
    /\ assessment = NoAssessment
    /\ calls = <<>>
    /\ SamplerIdle
    /\ FetcherIdle

SpecLayered == InitLayered /\ [][Next]_vars

(* --------------------------- tle_fetcher ------------------------------ *)
(* the catalogs the application offers, in the order it appends them *)
CatalogNames == <<"stations", "starlink", "debris">>

(* the number of cached records FALLBACK_TLE_DATA holds for each key *)
FALLBACK_TLE_DATA == [stations |-> 2, starlink |-> 8, debris |-> 6]

(* the messages of the exceptions a request can raise *)
Messages == {"timeout", "HTTP 500"}

(* what the TLE API does with one request: it raises, or it answers with   *)
(* at most page_size members, possibly none                                *)
Responses(limit) ==
    [raised : {TRUE}, members : {0}, message : Messages]
    \cup [raised : {FALSE}, members : 0..limit, message : {"None"}]

(* the records of one source for one catalog *)
RecordsFrom(origin, catalog_name, count) ==
    [n \in 1..count |-> [name |-> n, catalog |-> catalog_name,
                         origin |-> origin]]

(* lines 138-159: the members of the answer, tagged with the catalog *)
fetch_from_tle_api(catalog_name, response) ==
    RecordsFrom("live", catalog_name, response.members)

(* lines 184-204: fallback_sats[:limit], tagged with the catalog *)
get_fallback_data(catalog_name, limit) ==
    LET size == FALLBACK_TLE_DATA[catalog_name]
    IN  RecordsFrom("cached", catalog_name, IF limit < size THEN limit ELSE size)

(* fetch_tle_data whose live branch leaves _last_error as it was *)
fetch_tle_data_keeps_error(globals, catalog_name, limit, response) ==
    IF ~response.raised /\ response.members > 0
    THEN [using_fallback |-> FALSE,
          last_error |-> globals.last_error,
          data_source |-> "TLE API (live data)",
          sats |-> fetch_from_tle_api(catalog_name, response)]
    ELSE [using_fallback |-> TRUE,
          last_error |-> IF response.raised THEN response.message
                         ELSE globals.last_error,
          data_source |-> "Cached demo data",
          sats |-> get_fallback_data(catalog_name, limit)]

(* lines 161-182: the globals after the call and the records returned.     *)
(* An empty answer falls through to the fallback and leaves _last_error    *)
(* as it was.                                                              *)
fetch_tle_data(globals, catalog_name, limit, response) ==
    IF ~response.raised /\ response.members > 0
    THEN [using_fallback |-> FALSE,
          last_error |-> "None",
          data_source |-> "TLE API (live data)",
          sats |-> fetch_from_tle_api(catalog_name, response)]
    ELSE [using_fallback |-> TRUE,
          last_error |-> IF response.raised THEN response.message
                         ELSE globals.last_error,
          data_source |-> "Cached demo data",
          sats |-> get_fallback_data(catalog_name, limit)]

(* lines 206-216 *)
is_using_fallback == using_fallback
get_last_error == last_error
get_data_source == IF data_source = "None" THEN "Unknown" ELSE data_source

(* app.py lines 37-46: the non-empty selections of catalogs *)
Selections ==
    {<<"stations">>, <<"starlink">>, <<"debris">>,
     <<"stations", "starlink">>, <<"stations", "debris">>,
     <<"starlink", "debris">>, CatalogNames}
Limits == {1, 3}

InitFetch ==
    /\ satellites = <<>>
    /\ threshold_km = 0
    /\ duration_hours = 0
    /\ step_minutes = 0
    /\ runs = 1
    /\ now = 0
    /\ pc = "idle"
    /\ start_time = 0
    /\ steps = 0
    /\ step = 0
    /\ conjunctions = <<>>
    /\ returned = <<>>
    /\ distance_km = 0
    /\ assessment = NoAssessment
    /\ calls = <<>>
    /\ SamplerIdle
    /\ catalogs \in Selections
    /\ limit_per_catalog \in Limits
    /\ fetched = 0
    /\ using_fallback = FALSE
    /\ last_error = "None"
    /\ data_source = "None"
    /\ all_satellites = <<>>
    /\ report = "none"

screenVars == <<satellites, threshold_km, duration_hours, step_minutes, runs,
                now, start_time, steps, step, conjunctions, returned,
                distance_km, assessment, calls>>

(* fetch_multiple_catalogs line 223: all_satellites = [] *)
FetchCall ==
    /\ pc = "idle"
    /\ pc' = "fetching"
    /\ all_satellites' = <<>>
    /\ fetched' = 0
    /\ UNCHANGED <<screenVars, samplerVars, catalogs, limit_per_catalog,
                   using_fallback, last_error, data_source, report>>

(* lines 224-226: one iteration, with whatever the API does *)
FetchOne ==
    /\ pc = "fetching"
    /\ fetched < Len(catalogs)
    /\ \E response \in Responses(limit_per_catalog) :
          LET out == fetch_tle_data([using_fallback |-> using_fallback,
                                     last_error |-> last_error,
                                     data_source |-> data_source],
                                    catalogs[fetched + 1],
                                    limit_per_catalog, response)
          IN  /\ using_fallback' = out.using_fallback
              /\ last_error' = out.last_error
              /\ data_source' = out.data_source
              /\ all_satellites' = all_satellites \o out.sats
    /\ fetched' = fetched + 1
    /\ UNCHANGED <<screenVars, samplerVars, pc, catalogs, limit_per_catalog,
                   report>>

(* line 228: return all_satellites *)
FetchReturn ==
    /\ pc = "fetching"
    /\ fetched = Len(catalogs)
    /\ pc' = "fetched"
    /\ UNCHANGED <<screenVars, samplerVars, fetchVars>>

(* app.py lines 51-57: what the application tells the user *)
Report ==
    /\ pc = "fetched"
    /\ pc' = "reported"
    /\ report' = IF all_satellites = <<>> THEN "Could not fetch"
                 ELSE IF is_using_fallback THEN "Demo Mode"
                 ELSE "live orbital data"
    /\ UNCHANGED <<screenVars, samplerVars, catalogs, limit_per_catalog,
                   fetched, using_fallback, last_error, data_source,
                   all_satellites>>

NextFetch == FetchCall \/ FetchOne \/ FetchReturn \/ Report

SpecFetch == InitFetch /\ [][NextFetch]_vars

(* ------------------------------ claims -------------------------------- *)
Done == pc = "done"
GridTime(k) == start_time + k * step_minutes
GridSteps == 0..(steps - 1)
Events == 1..Len(conjunctions)
Participants(e) == {e.object1, e.object2}
Sampled(sat, k) == get_current_position(sat, GridTime(k)).kind = "ok"

(* C1: assess_collision_risk(d) returns the tier and score of the first    *)
(* upper-exclusive breakpoint above d: below 1 km CRITICAL/95, from 1 to   *)
(* below 5 HIGH/80, from 5 to below 10 ELEVATED/60, from 10 to below 25    *)
(* MODERATE/40, from 25 to below 50 LOW/20, from 50 on MINIMAL/5.          *)
C1_Breakpoints ==
    assessment # NoAssessment =>
        LET d == distance_km
            tier == <<assessment[1], assessment[2]>>
        IN  /\ d < 1000 => tier = <<"CRITICAL", 95>>
            /\ (1000 <= d /\ d < 5000) => tier = <<"HIGH", 80>>
            /\ (5000 <= d /\ d < 10000) => tier = <<"ELEVATED", 60>>
            /\ (10000 <= d /\ d < 25000) => tier = <<"MODERATE", 40>>
            /\ (25000 <= d /\ d < 50000) => tier = <<"LOW", 20>>
            /\ 50000 <= d => tier = <<"MINIMAL", 5>>

C1_Witness ==
    /\ distance_km = 5000
    /\ assessment # NoAssessment
    /\ assessment[1] = "ELEVATED"

(* C2: every returned event's recorded distance_km is strictly below the   *)
(* threshold_km of the run.                                                *)
C2_RecordedBelowThreshold ==
    Done => \A a \in Events : conjunctions[a].distance_km < threshold_km

(* two objects with the same elements, sampled at every grid time *)
TwoIdentical ==
    /\ Len(satellites) = 2
    /\ satellites[1].elements = satellites[2].elements
    /\ \A k \in GridSteps : Sampled(satellites[1], k)

(* one event per grid time, in grid order, distance 0, CRITICAL/95 *)
EveryGridTimeReported ==
    /\ Len(conjunctions) = steps
    /\ \A a \in Events :
          /\ conjunctions[a].time = GridTime(a - 1)
          /\ conjunctions[a].distance_km = 0
          /\ assess_collision_risk(conjunctions[a].distance_km)[1] = "CRITICAL"
          /\ assess_collision_risk(conjunctions[a].distance_km)[2] = 95

EventsOf(t, names) ==
    {a \in Events : conjunctions[a].time = t
                    /\ Participants(conjunctions[a]) = names}

InputPairs(names) ==
    {ij \in (1..Len(satellites)) \X (1..Len(satellites)) :
        /\ ij[1] < ij[2]
        /\ {satellites[ij[1]].name, satellites[ij[2]].name} = names}

(* C4 as stated: no two returned events have the same time and the same    *)
(* unordered pair of participant names.                                    *)
C4_NamePairOncePerTime ==
    Done => \A a, b \in Events :
                (a < b /\ conjunctions[a].time = conjunctions[b].time)
                => Participants(conjunctions[a]) # Participants(conjunctions[b])

(* C4 amended: for each grid time and unordered pair of names, there are   *)
(* at most as many events as there are pairs of input objects carrying     *)
(* those names, so every pair of input objects is reported at most once    *)
(* per grid time, and objects with distinct names at most once by name.    *)
C4_ObjectPairOncePerTime ==
    Done => \A a \in Events :
                LET e == conjunctions[a]
                IN  Cardinality(EventsOf(e.time, Participants(e)))
                    <= Cardinality(InputPairs(Participants(e)))

C4_Witness ==
    /\ Done
    /\ \E a, b \in Events :
          /\ a < b
          /\ conjunctions[a].time = conjunctions[b].time
          /\ Participants(conjunctions[a]) = Participants(conjunctions[b])
    /\ \E a \in Events : conjunctions[a].object1 # conjunctions[a].object2

(* C5: the returned list is in non-decreasing order of distance_km.        *)
C5_AscendingDistance ==
    Done => \A a \in Events :
                a < Len(conjunctions)
                => conjunctions[a].distance_km <= conjunctions[a + 1].distance_km

C5_Witness ==
    /\ Done
    /\ \E a, b \in Events :
          /\ a < b
          /\ conjunctions[a].distance_km < conjunctions[b].distance_km
          /\ conjunctions[a].time > conjunctions[b].time

Min(x, y) == IF x <= y THEN x ELSE y
Max(x, y) == IF x <= y THEN y ELSE x
PairKey(e) == <<Min(e.object1, e.object2), Max(e.object1, e.object2)>>
LexLeq(p, q) == p[1] < q[1] \/ (p[1] = q[1] /\ p[2] <= q[2])

(* C7: returned events of equal distance and equal time are in lexical     *)
(* order of their two participant names.                                   *)
C7_TiesByNames ==
    Done => \A a \in Events :
                (/\ a < Len(conjunctions)
                 /\ conjunctions[a].distance_km = conjunctions[a + 1].distance_km
                 /\ conjunctions[a].time = conjunctions[a + 1].time)
                => LexLeq(PairKey(conjunctions[a]), PairKey(conjunctions[a + 1]))

(* an object is malformed when its lookup fails at every grid time *)
Malformed(sat) == \A k \in GridSteps : ~Sampled(sat, k)
WellFormed(sat) == ~Malformed(sat)

(* C8: a run whose input holds a malformed object completes and returns    *)
(* exactly what the run over the other objects alone returns.              *)
C8_MalformedIgnored ==
    (Done /\ \E i \in 1..Len(satellites) : Malformed(satellites[i]))
    => conjunctions = find_conjunctions(SelectSeq(satellites, WellFormed),
                                        threshold_km, duration_hours,
                                        step_minutes, start_time)

C8_Witness ==
    /\ Done
    /\ \E i \in 1..Len(satellites) : Malformed(satellites[i])
    /\ Len(SelectSeq(satellites, WellFormed)) >= 2
    /\ Malformed(satellites[1])
    /\ conjunctions # <<>>

SomeFailed ==
    \E i \in 1..Len(satellites) : \E k \in GridSteps : ~Sampled(satellites[i], k)

(* C9: the value returned by a run in which some object could not be       *)
(* propagated differs from the value returned by a run in which every      *)
(* object propagated and no pair came within the threshold (the empty      *)
(* list).                                                                  *)
C9_FailureObservable ==
    (Done /\ SomeFailed) => conjunctions # <<>>

(* C10: runs over identical inputs return identical event sequences.       *)
C10_Reproducible ==
    \A a, b \in 1..Len(returned) : returned[a] = returned[b]

(* C11: propagate_satellite called with a duration or a step interval that *)
(* is zero or negative returns an empty trajectory and does not raise.     *)
C11_DegenerateEmpty ==
    (pc \in {"sampled", "raised"} /\ (duration_hours <= 0 \/ step_minutes <= 0))
    => (pc = "sampled" /\ trajectory = NoTrajectory)

(* C12: assess_collision_risk returns no tier for a negative distance.     *)
C12_NegativeRejected ==
    distance_km < 0 => assessment = NoAssessment

(* C13: a screening run called with a non-positive threshold, duration or  *)
(* step interval does not return an event list.                            *)
C13_InputsValidated ==
    (threshold_km <= 0 \/ duration_hours <= 0 \/ step_minutes <= 0) => ~Done

(* the whole thousandths of a km of an object's altitude at grid step k *)
AltitudeAt(sat, k) == get_current_position(sat, GridTime(k)).altitude_km.floor

(* the altitudes of the two objects differ by more than the threshold at   *)
(* every grid time at which both are sampled (whole parts that differ by   *)
(* more than the threshold: the altitudes differ by more than it for sure) *)
AltitudesApart ==
    /\ Len(satellites) = 2
    /\ \A k \in GridSteps :
          (Sampled(satellites[1], k) /\ Sampled(satellites[2], k))
          => Abs(AltitudeAt(satellites[1], k) - AltitudeAt(satellites[2], k))
             > threshold_km

(* C14: two objects whose altitudes differ by more than the threshold at   *)
(* every sampled grid time give no event.                                  *)
C14_AltitudesApartNoEvent ==
    (Done /\ AltitudesApart) => conjunctions = <<>>

C14_Witness ==
    /\ Done
    /\ AltitudesApart
    /\ threshold_km > 0
    /\ steps >= 2
    /\ \A k \in GridSteps : Sampled(satellites[1], k) /\ Sampled(satellites[2], k)
    /\ conjunctions = <<>>

(* the least whole number not below a / b, for positive b *)
Ceiling(a, b) == (a + b - 1) \div b

(* C15: for positive duration and step the screener's grid has exactly     *)
(* ceiling(duration / step) points, the k-th being start_time + k * step.  *)
C15_GridIsCeiling ==
    (Done /\ duration_hours > 0 /\ step_minutes > 0)
    => /\ steps = Ceiling(duration_hours * 60, step_minutes)
       /\ \A n \in 1..Len(calls) :
             \E k \in GridSteps : calls[n][2] = start_time + k * step_minutes

(* the events recorded for grid step k *)
EventsAt(k) == {a \in Events : conjunctions[a].time = GridTime(k)}

(* the pairs of input objects that both have a sample at grid step k and   *)
(* are closer than the threshold there                                     *)
ClosePairsAt(k) ==
    {ij \in (1..Len(satellites)) \X (1..Len(satellites)) :
        /\ ij[1] < ij[2]
        /\ Sampled(satellites[ij[1]], k)
        /\ Sampled(satellites[ij[2]], k)
        /\ calculate_distance(
               get_current_position(satellites[ij[1]], GridTime(k)).position,
               get_current_position(satellites[ij[2]], GridTime(k)).position
           ).floor < threshold_km}

(* C16: an object whose propagation fails at grid step k is left out of    *)
(* step k only: every step has one event for each close pair of the        *)
(* objects sampled at that step, whatever failed at it or at other steps.  *)
C16_FailedStepOnly ==
    Done => \A k \in GridSteps :
                Cardinality(EventsAt(k)) = Cardinality(ClosePairsAt(k))

C16_Witness ==
    /\ Done
    /\ \E f \in 1..Len(satellites) : \E k \in GridSteps :
          /\ \A g \in (1..Len(satellites)) \ {f} :
                satellites[g].name # satellites[f].name
          /\ get_current_position(satellites[f], GridTime(k)).kind = "none"
          /\ EventsAt(k) # {}
          /\ \E later \in GridSteps : \E a \in EventsAt(later) :
                /\ later > k
                /\ satellites[f].name \in Participants(conjunctions[a])

(* the grid times of propagate_satellite and those at which sgp4 succeeds  *)
SampleGrid == {start_time + k * step_minutes : k \in 0..(steps - 1)}
Propagated(t) == sgp4(twoline2rv(tle_record.elements).satrec, t).error = 0

(* C17: in the trajectory that propagate_satellite returns, a grid step    *)
(* whose propagation fails contributes no sample and stops nothing after   *)
(* it; the times are strictly ascending grid times, and positions and      *)
(* times have the same length, the grid size when no step failed.          *)
C17_Trajectory ==
    pc = "sampled" =>
        /\ Len(trajectory.positions) = Len(trajectory.times)
        /\ \A n \in 1..(Len(trajectory.times) - 1) :
              trajectory.times[n] < trajectory.times[n + 1]
        /\ {trajectory.times[n] : n \in 1..Len(trajectory.times)}
           = {t \in SampleGrid : Propagated(t)}
        /\ (\A t \in SampleGrid : Propagated(t))
           => Len(trajectory.times) = steps

(* the lookups made for object n at time t *)
CallsFor(n, t) == {c \in 1..Len(calls) : calls[c] = <<n, t>>}

(* C18: with positive duration and step, find_conjunctions looks up every  *)
(* object exactly once at every grid step and at no other time, every      *)
(* lookup is for a time from start_time up to but not including            *)
(* start_time + duration, and every event's offset from the start is a     *)
(* non-negative multiple of the step smaller than the duration.            *)
C18_OncePerObjectAndStep ==
    (Done /\ duration_hours > 0 /\ step_minutes > 0) =>
        /\ \A n \in 1..Len(satellites) : \A k \in GridSteps :
              Cardinality(CallsFor(n, GridTime(k))) = 1
        /\ Len(calls) = Len(satellites) * steps
        /\ \A c \in 1..Len(calls) :
              /\ start_time <= calls[c][2]
              /\ calls[c][2] < start_time + duration_hours * 60
        /\ \A a \in Events :
              /\ conjunctions[a].time_from_now >= 0
              /\ conjunctions[a].time_from_now % step_minutes = 0
              /\ conjunctions[a].time_from_now < duration_hours * 60

C18_Witness ==
    /\ Done
    /\ Len(satellites) >= 2
    /\ steps >= 2
    /\ Len(calls) = Len(satellites) * steps
    /\ \E a \in Events : conjunctions[a].time_from_now > 0

(* the event due for the input objects ij[1] < ij[2] at grid step k: the   *)
(* names in input order, the distance to 0.01 km, the grid time and its    *)
(* offset, and the altitude of each of the two objects to 0.1 km           *)
ExpectedEvent(ij, k) ==
    LET first == get_current_position(satellites[ij[1]], GridTime(k))
        second == get_current_position(satellites[ij[2]], GridTime(k))
    IN  [object1 |-> satellites[ij[1]].name,
         object2 |-> satellites[ij[2]].name,
         distance_km |-> Round(calculate_distance(first.position,
                                                  second.position), 10),
         time |-> GridTime(k),
         time_from_now |-> k * step_minutes,
         altitude1_km |-> Round(first.altitude_km, 100),
         altitude2_km |-> Round(second.altitude_km, 100)]

(* the (grid step, pair of input objects) combinations that are due an     *)
(* event                                                                   *)
Due == {d \in GridSteps \X ((1..Len(satellites)) \X (1..Len(satellites))) :
           d[2] \in ClosePairsAt(d[1])}

(* C19: the output is complete and exact: one event for every grid time    *)
(* and pair of input objects that are both sampled at that time and closer *)
(* than the threshold, no other event, and in each event altitude1_km and  *)
(* altitude2_km are the altitudes (to 0.1 km) of object1 and object2 at    *)
(* the event time.                                                         *)
C19_CompleteAndExact ==
    Done =>
        /\ \A a \in Events : \E d \in Due :
              conjunctions[a] = ExpectedEvent(d[2], d[1])
        /\ \A d \in Due :
              Cardinality({a \in Events :
                              conjunctions[a] = ExpectedEvent(d[2], d[1])})
              = Cardinality({e \in Due : ExpectedEvent(e[2], e[1])
                                         = ExpectedEvent(d[2], d[1])})

C19_Witness ==
    /\ Done
    /\ Len(conjunctions) >= 2
    /\ \E a \in Events :
          conjunctions[a].altitude1_km # conjunctions[a].altitude2_km
    /\ \E k \in GridSteps : \E i, j \in 1..Len(satellites) :
          /\ i < j
          /\ Sampled(satellites[i], k)
          /\ Sampled(satellites[j], k)
          /\ <<i, j>> \notin ClosePairsAt(k)

(* some returned record came from the cached fallback data *)
ServedFromFallback ==
    \E n \in 1..Len(all_satellites) : all_satellites[n].origin = "cached"

(* C20: after fetch_multiple_catalogs returns, is_using_fallback() is true *)
(* whenever a catalog was served from the fallback data, so that the       *)
(* application reports live orbital data only when no record is cached.    *)
C20_FallbackReported ==
    /\ (pc \in {"fetched", "reported"} /\ ServedFromFallback)
       => is_using_fallback
    /\ report = "live orbital data" => ~ServedFromFallback

(* C21: after any sequence of fetch_tle_data calls the status values agree *)
(* with each other: while is_using_fallback() is false get_last_error()    *)
(* is None, and once a fetch has completed is_using_fallback() is true     *)
(* exactly when get_data_source() is 'Cached demo data' and false exactly  *)
(* when it is 'TLE API (live data)'.                                       *)
C21_StatusConsistent ==
    /\ ~is_using_fallback => get_last_error = "None"
    /\ fetched >= 1 =>
          /\ is_using_fallback <=> get_data_source = "Cached demo data"
          /\ ~is_using_fallback <=> get_data_source = "TLE API (live data)"

C21_Witness ==
    /\ fetched >= 2
    /\ ServedFromFallback
    /\ ~is_using_fallback
    /\ get_last_error = "None"
    /\ get_data_source = "TLE API (live data)"

====
